---- MODULE Spec2Model ----
(***************************************************************************)
(* Model of src/app1.py: the single-server ticket queue simulation         *)
(* (class TicketQueueSimulation) and the part of main() that seeds the     *)
(* random module, builds an instance, runs simulate() and shows the        *)
(* outcome.                                                                *)
(*                                                                         *)
(* Time is a real number in the program; here it is an integer.  A call    *)
(* of exponential_random(rate) returns -log(1 - u) / rate for a uniform    *)
(* u in [0, 1); the model draws d = -log(1 - u) from 0..MaxDraw (0 is the  *)
(* value for u = 0) and divides it by the rate.  A rate is the             *)
(* reciprocal 1/t of a mean time t and is kept as the fraction num/den.    *)
(* The destination label of an arrival ('ride', lines 54 and 61) is        *)
(* carried by the program from the generator to the display and is read    *)
(* by no transition of the queue; it is left out of the records here.      *)
(***************************************************************************)
EXTENDS Integers, Sequences, FiniteSets, TLC

\* generate_arrivals(5): the number of customers simulate() generates.
NumCustomers == 5

\* Largest value of -log(1 - u) a draw can take in the model.
MaxDraw == 1

\* The values a draw can take.
Draws == 0..MaxDraw

\* Largest num_customers generate_arrivals is called with on its own.
MaxGenCustomers == 6

\* The configurations explored: arrival_times and service_time_mean as the
\* constructor takes them, num_events as simulate() takes it.  3 is the
\* default num_events, 10 the number of events ever scheduled.
Config(a, s, n) == [arrival_times |-> a, service_time_mean |-> s, num_events |-> n]

\* What section 6 of the specification admits: positive times, num_events >= 0.
ValidConfigs ==
    {Config(<<1>>, 1, 0), Config(<<2, 1>>, 2, 0),
     Config(<<1>>, 1, 3), Config(<<1>>, 2, 3),
     Config(<<2, 1>>, 1, 3), Config(<<2, 1>>, 2, 3),
     Config(<<2, 1>>, 1, 10),
     Config(<<1>>, 2, 11)}

\* What a direct caller of the class can pass besides.
InvalidConfigs ==
    {Config(<<0>>, 1, 3), Config(<<1>>, 0, 3),
     Config(<<-1>>, 1, 3), Config(<<1, -1>>, 1, 3), Config(<<1>>, -1, 3),
     Config(<<1>>, 1, -1), Config(<<2, 1>>, 2, -1)}

VARIABLES
    pc,                  \* position in main() / simulate()
    error,               \* the exception that ended the run, "" when none
    cfg_arrival_times,   \* arrival_times handed to the constructor
    cfg_service_time_mean, \* service_time_mean handed to the constructor
    cfg_num_events,      \* num_events handed to simulate()
    rng_tape,            \* the stream of the seeded random module, as far as read
    rng_pos,             \* how many values of the stream were consumed since seeding
    arrival_rates,       \* self.arrival_rates
    service_rate,        \* self.service_rate (<<>> before construction)
    arrivals,            \* self.arrivals
    events,              \* self.events
    queue_history,       \* self.queue_history
    server_busy_history, \* self.server_busy_history
    num_events,          \* simulate(): the parameter
    time,                \* simulate(): locals, by their names
    server_busy,
    queue,
    customers_in_system,
    server_busy_time,
    last_event_time,
    event_count,
    customer_time_data,
    previous_time,
    previous_customers,
    event_list,
    events_log,
    result,              \* <<>> until simulate() returns, then <<the dict>>
    shown                \* what main() displayed, one entry per run

cfgVars == <<cfg_arrival_times, cfg_service_time_mean, cfg_num_events>>
rngVars == <<rng_tape, rng_pos>>
selfVars == <<arrival_rates, service_rate, arrivals, events, queue_history,
              server_busy_history>>
localVars == <<num_events, time, server_busy, queue, customers_in_system,
               server_busy_time, last_event_time, event_count,
               customer_time_data, previous_time, previous_customers,
               event_list, events_log>>
vars == <<pc, error, cfgVars, rngVars, selfVars, localVars, result, shown>>

----------------------------------------------------------------------------
(* Pure helpers *)

\* 1 / t  (lines 19 and 20); the caller has checked t # 0.
Rate(t) == [num |-> 1, den |-> t]

\* ExponentialRandom without the minus sign: log(1 - u) / rate.
ExponentialRandomNoMinus(rate, d) == (-(d * rate.den)) \div rate.num

\* exponential_random: -log(1 - u) / rate, d standing for -log(1 - u).
ExponentialRandom(rate, d) == (d * rate.den) \div rate.num

\* The draws of the next n calls of random.random(): the stream read so far
\* is replayed, beyond it any value can come.
DrawSeqs(n) ==
    {ds \in [1..n -> Draws] :
        \A i \in 1..n : rng_pos + i <= Len(rng_tape) => ds[i] = rng_tape[rng_pos + i]}

\* The stream as known after those n draws.
TapeAfter(ds) ==
    IF rng_pos + Len(ds) <= Len(rng_tape)
    THEN rng_tape
    ELSE SubSeq(rng_tape, 1, rng_pos) \o ds

\* Seed leaving the stream where it is: no reseeding.
SeedKeep(pos) == pos

\* random.seed(seed_value): the stream starts again at its first value.
Seed(pos) == 0

\* GenerateArrivals with current_time not accumulated: each arrival_time is
\* its own inter-arrival draw.
GenerateArrivalsNoSum(rates, ds, num_customers) ==
    [k \in 1..num_customers |->
        LET rate == rates[((k - 1) % Len(rates)) + 1]
            inter_arrival == ExponentialRandom(rate, ds[k])
        IN [customer |-> k,
            arrival_time |-> inter_arrival,
            inter_arrival |-> inter_arrival,
            arrival_rate |-> rate]]

RECURSIVE GenerateArrivals(_, _, _)
\* generate_arrivals(num_customers), the i-th call of exponential_random
\* returning ExponentialRandom(rate, ds[i]).
GenerateArrivals(rates, ds, num_customers) ==
    IF num_customers = 0 THEN <<>>
    ELSE LET before == GenerateArrivals(rates, ds, num_customers - 1)
             i == num_customers - 1
             current_time == IF i = 0 THEN 0 ELSE before[i].arrival_time
             rate == rates[(i % Len(rates)) + 1]
             inter_arrival == ExponentialRandom(rate, ds[num_customers])
         IN Append(before, [customer |-> i + 1,
                            arrival_time |-> current_time + inter_arrival,
                            inter_arrival |-> inter_arrival,
                            arrival_rate |-> rate])

\* InsertSorted with e going before the elements of equal time: a sort that
\* is not stable.
InsertBeforeEqual(s, e) ==
    LET k == Cardinality({i \in 1..Len(s) : s[i].time < e.time})
    IN SubSeq(s, 1, k) \o <<e>> \o SubSeq(s, k + 1, Len(s))

\* One step of list.sort(key=lambda x: x[0]), which is stable: e goes behind
\* every element whose time is not greater.
InsertSorted(s, e) ==
    LET k == Cardinality({i \in 1..Len(s) : s[i].time <= e.time})
    IN SubSeq(s, 1, k) \o <<e>> \o SubSeq(s, k + 1, Len(s))

\* SortByTime with the sort left out.
SortNone(s) == s

RECURSIVE SortByTime(_)
\* list.sort(key=lambda x: x[0])
SortByTime(s) ==
    IF s = <<>> THEN <<>>
    ELSE InsertSorted(SortByTime(SubSeq(s, 1, Len(s) - 1)), s[Len(s)])

\* event_list = [(a['arrival_time'], 'arrival', a['customer']) ...]; sort
InitialEventList(arr) ==
    SortByTime([i \in 1..Len(arr) |->
        [time |-> arr[i].arrival_time, type |-> "arrival", customer |-> arr[i].customer]])

\* ScheduleDeparture with the event not appended.
ScheduleDepartureDropped(list, departure_time, customer) == list

\* event_list.append((departure_time, 'departure', customer)); sort
ScheduleDeparture(list, departure_time, customer) ==
    SortByTime(Append(list,
        [time |-> departure_time, type |-> "departure", customer |-> customer]))

\* Enqueue at the head of the queue: last in, first out.
EnqueueFront(q, customer) == <<customer>> \o q

\* Enqueue with the customer lost.
EnqueueDrop(q, customer) == q

\* queue.append(customer)
Enqueue(q, customer) == Append(q, customer)

\* HasWaiting true only from two waiting customers on.
HasSeveralWaiting(q) == Len(q) > 1

\* if queue:
HasWaiting(q) == q # <<>>

\* NextCustomer giving the customer of the departure being processed.
NextCustomerStale(q, departing) == departing

\* next_customer = queue.pop(0), departing being the 'customer' of the event
NextCustomer(q, departing) == Head(q)

\* PopFirst reading event_list[0] without removing it.
PeekFirst(list) == list

\* The list event_list.pop(0) leaves.
PopFirst(list) == Tail(list)

\* SequenceNumber counting from 0.
SequenceFromZero(count) == count

\* 'sequence': event_count + 1
SequenceNumber(count) == count + 1

\* LoopCond with <= for <.
LoopCondOffByOne == event_list # <<>> /\ event_count <= num_events

\* while event_list and event_count < num_events
LoopCond == event_list # <<>> /\ event_count < num_events

\* TimeElapsed without the subtraction.
TimeElapsedFromZero(event_time, last) == event_time

\* time_elapsed = event_time - last_event_time
TimeElapsed(event_time, last) == event_time - last

\* Ratio without the guard on total_time.
RatioUnguarded(x, total_time) == [num |-> x, den |-> total_time]

\* x / total_time if total_time > 0 else 0, as a fraction
Ratio(x, total_time) ==
    IF total_time > 0 THEN [num |-> x, den |-> total_time] ELSE [num |-> 0, den |-> 1]

RECURSIVE SumCustomerTimeByTime(_)
\* SumCustomerTime multiplying by the time of the event, not by the duration
\* of the interval before it.
SumCustomerTimeByTime(data) ==
    IF data = <<>> THEN 0
    ELSE SumCustomerTimeByTime(SubSeq(data, 1, Len(data) - 1))
         + data[Len(data)].customers * data[Len(data)].time

RECURSIVE SumCustomerTime(_)
\* for data in customer_time_data: total += data['customers'] * data['duration']
SumCustomerTime(data) ==
    IF data = <<>> THEN 0
    ELSE SumCustomerTime(SubSeq(data, 1, Len(data) - 1))
         + data[Len(data)].customers * data[Len(data)].duration

\* total_customer_time, with the trailing term of lines 165 and 166
TotalCustomerTime(data, total_time, prev_time, prev_customers) ==
    SumCustomerTime(data)
    + (IF total_time > prev_time THEN prev_customers * (total_time - prev_time) ELSE 0)

\* a / b for two fractions
FracDiv(a, b) == [num |-> a.num * b.den, den |-> a.den * b.num]

\* a * b for two fractions
FracMul(a, b) == [num |-> a.num * b.num, den |-> a.den * b.den]

RECURSIVE FracSum(_)
\* The sum of a sequence of fractions
FracSum(fs) ==
    IF fs = <<>> THEN [num |-> 0, den |-> 1]
    ELSE LET rest == FracSum(SubSeq(fs, 1, Len(fs) - 1))
             f == fs[Len(fs)]
         IN [num |-> rest.num * f.den + f.num * rest.den, den |-> rest.den * f.den]

\* statistics.mean(sim.arrival_rates)
FracMean(fs) == [num |-> FracSum(fs).num, den |-> FracSum(fs).den * Len(fs)]

\* 1 - rho
OneMinus(rho) == [num |-> rho.den - rho.num, den |-> rho.den]

\* Stable with <= for <.
StableOrCritical(rho) == IF rho.den > 0 THEN rho.num <= rho.den ELSE rho.num >= rho.den

\* if rho < 1
Stable(rho) == IF rho.den > 0 THEN rho.num < rho.den ELSE rho.num > rho.den

\* main(), lines 391 to 413: the theoretical M/M/1 metrics, or the warning
\* "Sistem tidak stabil" with no metric.
Theoretical(rates, mu) ==
    LET avg_arrival_rate == FracMean(rates)
        rho == FracDiv(avg_arrival_rate, mu)
    IN IF Stable(rho)
       THEN LET L == FracDiv(rho, OneMinus(rho))
                W == FracDiv(L, avg_arrival_rate)
                Wq == FracMul(rho, W)
            IN [warning |-> FALSE,
                metrics |-> <<[lambda |-> avg_arrival_rate, mu |-> mu, rho |-> rho,
                               L |-> L, W |-> W, Wq |-> Wq]>>]
       ELSE [warning |-> TRUE, metrics |-> <<>>]

----------------------------------------------------------------------------
(* State *)

InitWith(configs) ==
    /\ pc = "start"
    /\ error = ""
    /\ \E c \in configs :
         /\ cfg_arrival_times = c.arrival_times
         /\ cfg_service_time_mean = c.service_time_mean
         /\ cfg_num_events = c.num_events
    /\ rng_tape = <<>>
    /\ rng_pos = 0
    /\ arrival_rates = <<>>
    /\ service_rate = <<>>
    /\ arrivals = <<>>
    /\ events = <<>>
    /\ queue_history = <<>>
    /\ server_busy_history = <<>>
    /\ num_events = 0
    /\ time = 0
    /\ server_busy = FALSE
    /\ queue = <<>>
    /\ customers_in_system = 0
    /\ server_busy_time = 0
    /\ last_event_time = 0
    /\ event_count = 0
    /\ customer_time_data = <<>>
    /\ previous_time = 0
    /\ previous_customers = 0
    /\ event_list = <<>>
    /\ events_log = <<>>
    /\ result = <<>>
    /\ shown = <<>>

Init == InitWith(ValidConfigs)

InitAny == InitWith(ValidConfigs \cup InvalidConfigs)

\* main(), lines 312 to 319: random.seed(seed_value), then
\* TicketQueueSimulation.__init__.  1/t raises ZeroDivisionError for t = 0.
Click ==
    /\ rng_pos' = Seed(rng_pos)
    /\ rng_tape' = rng_tape
    /\ IF (\E i \in 1..Len(cfg_arrival_times) : cfg_arrival_times[i] = 0)
          \/ cfg_service_time_mean = 0
       THEN /\ pc' = "raised"
            /\ error' = "ZeroDivisionError"
            /\ UNCHANGED selfVars
       ELSE /\ pc' = "constructed"
            /\ error' = ""
            /\ arrival_rates' = [i \in 1..Len(cfg_arrival_times) |-> Rate(cfg_arrival_times[i])]
            /\ service_rate' = Rate(cfg_service_time_mean)
            /\ arrivals' = <<>>
            /\ events' = <<>>
            /\ queue_history' = <<>>
            /\ server_busy_history' = <<>>
    /\ result' = <<>>
    /\ UNCHANGED <<cfgVars, localVars, shown>>

\* The button is pressed for the first time.
RunSimulation == pc = "start" /\ Click

\* The button is pressed once more, the widgets unchanged: main() runs
\* again, with the same seed and a new instance.
RunAgain == pc = "shown" /\ Len(shown) = 1 /\ Click

\* simulate(n), lines 67 to 87: the arrivals are generated anew and the
\* locals are set, self.queue_history and self.server_busy_history are
\* appended to as they stand.
SimulateEntry(n) ==
    /\ \E ds \in DrawSeqs(NumCustomers) :
         /\ arrivals' = GenerateArrivals(arrival_rates, ds, NumCustomers)
         /\ rng_tape' = TapeAfter(ds)
         /\ rng_pos' = rng_pos + NumCustomers
    /\ num_events' = n
    /\ time' = 0
    /\ server_busy' = FALSE
    /\ queue' = <<>>
    /\ customers_in_system' = 0
    /\ server_busy_time' = 0
    /\ last_event_time' = 0
    /\ event_count' = 0
    /\ customer_time_data' = <<>>
    /\ previous_time' = 0
    /\ previous_customers' = 0
    /\ event_list' = InitialEventList(arrivals')
    /\ events_log' = <<>>
    /\ queue_history' = Append(queue_history,
           [time |-> 0, queue_length |-> 0, customers_in_system |-> 0, server_busy |-> FALSE])
    /\ server_busy_history' = Append(server_busy_history, [time |-> 0, server_busy |-> FALSE])
    /\ pc' = "loop"
    /\ UNCHANGED <<error, cfgVars, arrival_rates, service_rate, events, shown>>

\* main(), line 321: simulate(num_events) on the instance just constructed
SimulateStart ==
    /\ pc = "constructed"
    /\ SimulateEntry(cfg_num_events)
    /\ UNCHANGED result

\* Lines 90 to 104 and 152 to 155: what every iteration does around the
\* transition; q, n and busy are the queue, customers_in_system and
\* server_busy the transition leaves.
Iteration(ev, kind, q, n, busy) ==
    /\ server_busy_time' = IF server_busy
                           THEN server_busy_time + TimeElapsed(ev.time, last_event_time)
                           ELSE server_busy_time
    /\ customer_time_data' = Append(customer_time_data,
           [time |-> ev.time, customers |-> previous_customers,
            duration |-> ev.time - previous_time])
    /\ time' = ev.time
    /\ last_event_time' = ev.time
    /\ previous_time' = ev.time
    /\ customers_in_system' = n
    /\ previous_customers' = n
    /\ queue' = q
    /\ server_busy' = busy
    /\ events_log' = Append(events_log,
           [sequence |-> SequenceNumber(event_count), type |-> kind, customer |-> ev.customer,
            time |-> ev.time, in_system |-> n, queue_length |-> Len(q),
            server_status |-> IF busy THEN "Sibuk" ELSE "Idle"])
    /\ queue_history' = Append(queue_history,
           [time |-> ev.time, queue_length |-> Len(q), customers_in_system |-> n,
            server_busy |-> busy])
    /\ server_busy_history' = Append(server_busy_history,
           [time |-> ev.time, server_busy |-> busy])
    /\ event_count' = event_count + 1
    /\ pc' = "loop"
    /\ UNCHANGED <<error, cfgVars, arrival_rates, service_rate, arrivals, events,
                   num_events, result, shown>>

\* One iteration of the loop whose event is an arrival (lines 106 to 127)
ProcessArrival ==
    /\ pc = "loop"
    /\ LoopCond
    /\ Head(event_list).type = "arrival"
    /\ LET ev == Head(event_list)
           rest == PopFirst(event_list)
       IN IF ~server_busy
          THEN \E ds \in DrawSeqs(1) :
                 /\ event_list' = ScheduleDeparture(rest,
                        ev.time + ExponentialRandom(service_rate, ds[1]), ev.customer)
                 /\ rng_tape' = TapeAfter(ds)
                 /\ rng_pos' = rng_pos + 1
                 /\ Iteration(ev, "Kedatangan", queue, customers_in_system + 1, TRUE)
          ELSE /\ event_list' = rest
               /\ UNCHANGED rngVars
               /\ Iteration(ev, "Kedatangan", Enqueue(queue, ev.customer),
                            customers_in_system + 1, server_busy)

\* One iteration of the loop whose event is a departure (lines 129 to 150)
ProcessDeparture ==
    /\ pc = "loop"
    /\ LoopCond
    /\ Head(event_list).type = "departure"
    /\ LET ev == Head(event_list)
           rest == PopFirst(event_list)
       IN IF HasWaiting(queue)
          THEN \E ds \in DrawSeqs(1) :
                 /\ event_list' = ScheduleDeparture(rest,
                        ev.time + ExponentialRandom(service_rate, ds[1]),
                        NextCustomer(queue, ev.customer))
                 /\ rng_tape' = TapeAfter(ds)
                 /\ rng_pos' = rng_pos + 1
                 /\ Iteration(ev, "Keberangkatan", Tail(queue), customers_in_system - 1,
                              server_busy)
          ELSE /\ event_list' = rest
               /\ UNCHANGED rngVars
               /\ Iteration(ev, "Keberangkatan", queue, customers_in_system - 1, FALSE)

\* Lines 157 to 179: the loop has ended; the statistics and the return value
Finish ==
    /\ pc = "loop"
    /\ ~LoopCond
    /\ LET total_time == time
       IN result' = <<[total_time |-> total_time,
                       server_utilization |-> Ratio(server_busy_time, total_time),
                       avg_customers_in_system |->
                           Ratio(TotalCustomerTime(customer_time_data, total_time,
                                                   previous_time, previous_customers),
                                 total_time),
                       final_customers_in_system |-> customers_in_system,
                       final_queue_length |-> Len(queue),
                       server_busy |-> server_busy]>>
    /\ events' = events_log
    /\ pc' = "returned"
    /\ UNCHANGED <<error, cfgVars, rngVars, arrival_rates, service_rate, arrivals,
                   queue_history, server_busy_history, localVars, shown>>

\* main(), lines 324 to 413: the tables and metrics of the run and the
\* theoretical metrics are displayed
Display ==
    /\ pc = "returned"
    /\ shown' = Append(shown, [arrivals |-> arrivals, events |-> events,
                               results |-> result[1],
                               theory |-> Theoretical(arrival_rates, service_rate)])
    /\ pc' = "shown"
    /\ UNCHANGED <<error, cfgVars, rngVars, selfVars, localVars, result>>

Next ==
    \/ RunSimulation
    \/ SimulateStart
    \/ ProcessArrival
    \/ ProcessDeparture
    \/ Finish

\* One run of simulate() on a new instance, with a valid configuration.
Spec == Init /\ [][Next]_vars

\* One run with any configuration a direct caller of the class can pass.
SpecAny == InitAny /\ [][Next]_vars

NextRepro ==
    \/ Next
    \/ Display
    \/ RunAgain

\* The configurations of the runs that are repeated.
ReproConfigs == ValidConfigs \ {Config(<<1>>, 2, 11)}

InitRepro == InitWith(ReproConfigs)

\* main() run twice with the same widgets and seed.
SpecRepro == InitRepro /\ [][NextRepro]_vars

\* The num_events a caller passes to a second simulate().
RerunNumEvents == {0, 3}

\* simulate(n) called once more on an instance whose first simulate() has
\* returned (its history holds that run alone): no constructor runs and the
\* random stream goes on where it was.
SimulateAgain ==
    /\ pc = "returned"
    /\ Len(queue_history) = event_count + 1
    /\ \E n \in RerunNumEvents : SimulateEntry(n)
    /\ result' = <<>>

NextRerun ==
    \/ Next
    \/ SimulateAgain

\* The configurations of the instances that simulate() is called on twice.
RerunConfigs == {Config(<<1>>, 1, 0), Config(<<1>>, 1, 3), Config(<<2, 1>>, 1, 3)}

InitRerun == InitWith(RerunConfigs)

\* simulate() called twice on one instance.
SpecRerun == InitRerun /\ [][NextRerun]_vars

\* generate_arrivals(n) called on its own on a new instance (lines 45 to 64)
GenerateCall ==
    /\ pc = "constructed"
    /\ \E n \in 0..MaxGenCustomers : \E ds \in DrawSeqs(n) :
         /\ arrivals' = GenerateArrivals(arrival_rates, ds, n)
         /\ rng_tape' = TapeAfter(ds)
         /\ rng_pos' = rng_pos + n
    /\ pc' = "generated"
    /\ UNCHANGED <<error, cfgVars, arrival_rates, service_rate, events, queue_history,
                   server_busy_history, localVars, result, shown>>

NextGen ==
    \/ RunSimulation
    \/ GenerateCall

\* The arrival generator alone, with a valid configuration.
SpecGen == Init /\ [][NextGen]_vars

----------------------------------------------------------------------------
(* Properties *)

\* The run has returned from simulate().
Returned == pc \in {"returned", "shown"}

\* Every arrival and every departure simulate() can ever schedule.
TotalScheduled == 2 * NumCustomers

\* 1 if server_busy else 0
BusyCount(busy) == IF busy THEN 1 ELSE 0

\* The entries of an event log satisfy in_system = queue_length + busy.
LogConsistent(log) ==
    \A i \in 1..Len(log) :
        log[i].in_system = log[i].queue_length + BusyCount(log[i].server_status = "Sibuk")

\* C1: every HistorySample (the initial one included) and every
\* EventLogEntry of a run with a valid configuration has
\* customers_in_system = queue_length + (1 if server_busy else 0); so has
\* the live state of the loop.
C1_SystemCountInvariant ==
    /\ \A i \in 1..Len(queue_history) :
         queue_history[i].customers_in_system
             = queue_history[i].queue_length + BusyCount(queue_history[i].server_busy)
    /\ LogConsistent(events_log)
    /\ LogConsistent(events)
    /\ customers_in_system = Len(queue) + BusyCount(server_busy)

\* C1 witness: the log holds an arrival that had to queue behind another
\* waiting customer and a departure that left the server idle.
C1_Witness ==
    /\ \E i \in 1..Len(events_log) :
         events_log[i].type = "Kedatangan" /\ events_log[i].queue_length = 2
    /\ \E i \in 1..Len(events_log) :
         events_log[i].type = "Keberangkatan" /\ events_log[i].server_status = "Idle"

\* C2: simulate(num_events) never processes more than num_events events,
\* it stops short of num_events only with the event list empty, and it
\* processes exactly num_events events whenever num_events is at most the
\* 10 events that are ever scheduled.
C2_ProcessedCount ==
    /\ pc \in {"loop", "returned", "shown"} =>
         /\ event_count = Len(events_log)
         /\ event_count <= num_events
    /\ Returned =>
         /\ Len(events) = event_count
         /\ event_count < num_events => event_list = <<>>
         /\ num_events <= TotalScheduled => Len(events) = num_events

\* C2 witness: a run asked for all 10 events has returned with 10 entries.
C2_Witness ==
    /\ Returned
    /\ num_events = TotalScheduled
    /\ Len(events) = TotalScheduled

\* C3: with num_events above the 10 events that can ever be scheduled the
\* loop never processes more than those 10, and simulate() returns, without
\* an error, a result after fewer than num_events events, the event list
\* being exhausted.
C3_ExhaustionTerminates ==
    num_events > TotalScheduled =>
        /\ event_count <= TotalScheduled
        /\ error = ""
        /\ pc = "loop" /\ event_count = TotalScheduled => event_list = <<>>
        /\ Returned =>
             /\ Len(events) < num_events
             /\ Len(events) = TotalScheduled
             /\ event_list = <<>>
             /\ Len(result) = 1

\* C3 witness: a run with num_events = 11 has returned after 10 events.
C3_Witness ==
    /\ Returned
    /\ num_events > TotalScheduled
    /\ Len(events) = TotalScheduled
    /\ Len(result) = 1

\* C4: 0 <= server_busy_time <= time and the accumulated customer-time is
\* not negative throughout the loop, and the result returned has
\* 0 <= server_utilization <= 1 and avg_customers_in_system >= 0, for
\* num_events = 0 too.
C4_StatisticsInRange ==
    /\ pc \in {"loop", "returned", "shown"} =>
         /\ 0 <= server_busy_time
         /\ server_busy_time <= time
         /\ SumCustomerTime(customer_time_data) >= 0
    /\ Returned =>
         LET r == result[1]
         IN /\ r.server_utilization.den > 0
            /\ 0 <= r.server_utilization.num
            /\ r.server_utilization.num <= r.server_utilization.den
            /\ r.avg_customers_in_system.den > 0
            /\ r.avg_customers_in_system.num >= 0

\* C4 witness: a returned result whose utilization lies strictly between 0
\* and 1 and whose average is above 1 customer.
C4_Witness ==
    /\ Returned
    /\ result[1].server_utilization.num > 0
    /\ result[1].server_utilization.num < result[1].server_utilization.den
    /\ result[1].avg_customers_in_system.num > result[1].avg_customers_in_system.den

\* The HistorySample recorded before the loop.
InitialSample ==
    [time |-> 0, queue_length |-> 0, customers_in_system |-> 0, server_busy |-> FALSE]

\* C5: simulate(0) processes no event: the log is empty, the history is the
\* initial sample alone, total_time is 0 and server_utilization and
\* avg_customers_in_system are 0 over a non-zero denominator.
C5_ZeroEvents ==
    (pc \in {"loop", "returned", "shown"} /\ num_events = 0) =>
        /\ events_log = <<>>
        /\ event_count = 0
        /\ queue_history = <<InitialSample>>
        /\ Returned =>
             /\ events = <<>>
             /\ result[1].total_time = 0
             /\ result[1].server_utilization.num = 0
             /\ result[1].server_utilization.den # 0
             /\ result[1].avg_customers_in_system.num = 0
             /\ result[1].avg_customers_in_system.den # 0
             /\ result[1].final_customers_in_system = 0
             /\ result[1].final_queue_length = 0
             /\ ~result[1].server_busy

\* C5 witness: simulate(0) has returned, with arrivals generated and pending.
C5_Witness ==
    /\ Returned
    /\ num_events = 0
    /\ Len(arrivals) = NumCustomers
    /\ Len(event_list) = NumCustomers

\* Some arrival-slot time or the mean service time is <= 0.
InvalidTimes ==
    \/ \E i \in 1..Len(cfg_arrival_times) : cfg_arrival_times[i] <= 0
    \/ cfg_service_time_mean <= 0

\* C6: a configuration with an arrival-slot time <= 0 or a mean service
\* time <= 0 is rejected before the simulation starts: the run gets no
\* further than the constructor, no arrival is generated, no event is
\* processed and no result is returned.
C6_InvalidTimesRejected ==
    InvalidTimes =>
        /\ pc \in {"start", "raised", "constructed"}
        /\ arrivals = <<>>
        /\ events_log = <<>>
        /\ result = <<>>

\* C7: simulate() with a negative num_events is rejected and does not
\* start: no arrival is generated, no history sample is recorded and no
\* result is returned.
C7_NegativeNumEventsRejected ==
    cfg_num_events < 0 =>
        /\ pc \in {"start", "raised", "constructed"}
        /\ arrivals = <<>>
        /\ queue_history = <<>>
        /\ result = <<>>

\* C8: two runs of main() with the same configuration and the same seed,
\* each on a new instance, show the same arrival records, the same event
\* log and the same result.
C8_Reproducible ==
    \A i \in 1..Len(shown) : \A j \in 1..Len(shown) : shown[i] = shown[j]

\* C8 witness: both runs are shown, each having processed all 10 events
\* with service draws that were not all equal.
C8_Witness ==
    /\ Len(shown) = 2
    /\ Len(shown[2].events) = TotalScheduled
    /\ shown[2].results.total_time > 0
    /\ \E i \in 1..NumCustomers : shown[2].arrivals[i].inter_arrival = 0
    /\ \E i \in 1..NumCustomers : shown[2].arrivals[i].inter_arrival > 0

\* The times of a sequence of records never decrease.
TimesNonDecreasing(s) == \A i \in 1..(Len(s) - 1) : s[i].time <= s[i + 1].time

\* C9: within a run the times of consecutive EventLogEntry records and of
\* consecutive HistorySamples never decrease, although departures are
\* inserted into the event list while it is consumed.
C9_TimeMonotone ==
    /\ TimesNonDecreasing(events_log)
    /\ TimesNonDecreasing(events)
    /\ TimesNonDecreasing(queue_history)
    /\ TimesNonDecreasing(server_busy_history)

\* C9 witness: a departure inserted during the loop was processed before an
\* arrival that was in the list from the start and lies later in time.
C9_Witness ==
    \E i \in 1..Len(events_log) : \E j \in 1..Len(events_log) :
        /\ i < j
        /\ events_log[i].type = "Keberangkatan"
        /\ events_log[j].type = "Kedatangan"
        /\ events_log[i].time < events_log[j].time

\* e1 was inserted into the event list before e2: the arrivals are inserted
\* together, in generation order, before the loop (line 81), a departure
\* during the loop (lines 114 and 137).
InsertedBefore(e1, e2) ==
    \/ e1.type = "arrival" /\ e2.type = "departure"
    \/ e1.type = "arrival" /\ e2.type = "arrival" /\ e1.customer < e2.customer

\* The index of the Arrival of customer c in the log, 0 when it has none.
ArrivalIndex(log, c) ==
    IF \E i \in 1..Len(log) : log[i].type = "Kedatangan" /\ log[i].customer = c
    THEN CHOOSE i \in 1..Len(log) : log[i].type = "Kedatangan" /\ log[i].customer = c
    ELSE 0

\* C10: the pending events are kept in time order with equal times in
\* insertion order, and the loop takes the first: of two pending events of
\* the same time the earlier inserted one is processed first.  So a
\* Departure is logged after every Arrival of the same time, and Arrivals
\* of the same time are logged in customer order.
C10_StableTies ==
    /\ \A i \in 1..Len(event_list) : \A j \in 1..Len(event_list) :
         i < j =>
            \/ event_list[i].time < event_list[j].time
            \/ /\ event_list[i].time = event_list[j].time
               /\ InsertedBefore(event_list[i], event_list[j])
    /\ \A j \in 1..Len(events_log) :
         events_log[j].type = "Keberangkatan" =>
            \A c \in 1..Len(arrivals) :
                arrivals[c].arrival_time = events_log[j].time =>
                    /\ ArrivalIndex(events_log, c) > 0
                    /\ ArrivalIndex(events_log, c) < j
    /\ \A i \in 1..Len(events_log) : \A j \in 1..Len(events_log) :
         (/\ i < j
          /\ events_log[i].type = "Kedatangan"
          /\ events_log[j].type = "Kedatangan") =>
            events_log[i].customer < events_log[j].customer

\* C10 witness: an Arrival and a Departure of the same time are pending
\* together, and two Arrivals of the same time have been processed.
C10_Witness ==
    /\ \E i \in 1..Len(event_list) : \E j \in 1..Len(event_list) :
         /\ event_list[i].time = event_list[j].time
         /\ event_list[i].type = "arrival"
         /\ event_list[j].type = "departure"
    /\ \E i \in 1..Len(events_log) : \E j \in 1..Len(events_log) :
         /\ i < j
         /\ events_log[i].type = "Kedatangan"
         /\ events_log[j].type = "Kedatangan"
         /\ events_log[i].time = events_log[j].time

\* C11: generate_arrivals(N) with positive slot times returns exactly N
\* records, customer ids 1..N in order, each inter_arrival being the draw
\* divided by the rate of slot i mod len, each arrival_time the running sum
\* of the inter-arrival draws so far; so arrival_time never decreases.
C11_ArrivalRecords ==
    pc = "generated" =>
        /\ Len(arrivals) = rng_pos
        /\ Len(rng_tape) = rng_pos
        /\ \A i \in 1..Len(arrivals) :
             /\ arrivals[i].customer = i
             /\ arrivals[i].inter_arrival
                  = rng_tape[i] * cfg_arrival_times[((i - 1) % Len(cfg_arrival_times)) + 1]
             /\ arrivals[i].inter_arrival >= 0
             /\ arrivals[i].arrival_time
                  = (IF i = 1 THEN 0 ELSE arrivals[i - 1].arrival_time)
                    + arrivals[i].inter_arrival
             /\ i > 1 => arrivals[i - 1].arrival_time <= arrivals[i].arrival_time

\* C11 witness: more records than slots were generated, two of them with the
\* same arrival_time and a later one with a greater arrival_time.
C11_Witness ==
    /\ pc = "generated"
    /\ Len(arrivals) > NumCustomers
    /\ Len(cfg_arrival_times) = 2
    /\ arrivals[2].arrival_time = arrivals[3].arrival_time
    /\ arrivals[3].arrival_time < arrivals[4].arrival_time
    /\ arrivals[1].arrival_time > 0

\* C12: on a new instance, after k processed events the log holds exactly k
\* entries with sequence 1, 2, ..., k, and the history holds k + 1 samples:
\* the initial sample at time 0, then for each log entry i the sample i + 1
\* with the same time and the same state after the transition.
C12_LogAndHistoryAligned ==
    pc \in {"loop", "returned"} =>
        /\ Len(events_log) = event_count
        /\ Len(queue_history) = event_count + 1
        /\ Len(server_busy_history) = event_count + 1
        /\ queue_history[1] = InitialSample
        /\ \A i \in 1..Len(events_log) :
             /\ events_log[i].sequence = i
             /\ queue_history[i + 1].time = events_log[i].time
             /\ queue_history[i + 1].customers_in_system = events_log[i].in_system
             /\ queue_history[i + 1].queue_length = events_log[i].queue_length
             /\ queue_history[i + 1].server_busy = (events_log[i].server_status = "Sibuk")
             /\ server_busy_history[i + 1].time = events_log[i].time
             /\ server_busy_history[i + 1].server_busy = queue_history[i + 1].server_busy
        /\ pc = "returned" => events = events_log

\* C12 witness: a run has returned a log of 10 entries, arrivals and
\* departures, and a history of 11 samples.
C12_Witness ==
    /\ pc = "returned"
    /\ Len(events) = TotalScheduled
    /\ Len(queue_history) = TotalScheduled + 1
    /\ events[TotalScheduled].sequence = TotalScheduled
    /\ events[TotalScheduled].type = "Keberangkatan"

RECURSIVE SlotProduct(_)
\* The product of the slot times
SlotProduct(ts) ==
    IF ts = <<>> THEN 1 ELSE SlotProduct(SubSeq(ts, 1, Len(ts) - 1)) * ts[Len(ts)]

RECURSIVE SlotRateSum(_, _)
\* p times the sum of the rates 1/t of the slots, p a multiple of every t
SlotRateSum(ts, p) ==
    IF ts = <<>> THEN 0
    ELSE SlotRateSum(SubSeq(ts, 1, Len(ts) - 1), p) + (p \div ts[Len(ts)])

\* rho_n / rho_d is lambda_mean / mu for the configuration, the slot times
\* and the mean service time being positive: mu = 1 / service_time_mean.
ConfigRhoNum ==
    cfg_service_time_mean * SlotRateSum(cfg_arrival_times, SlotProduct(cfg_arrival_times))

ConfigRhoDen == Len(cfg_arrival_times) * SlotProduct(cfg_arrival_times)

\* Two fractions are the same number.
FracEq(a, b) == a.num * b.den = b.num * a.den

\* The fields of a SimulationResult
ResultFields ==
    {"total_time", "server_utilization", "avg_customers_in_system",
     "final_customers_in_system", "final_queue_length", "server_busy"}

\* C13: when rho = lambda_mean / mu >= 1 the theoretical model gives the
\* instability warning and no L, W or Wq, while the run's SimulationResult
\* is shown with all its fields; when rho < 1 it gives L = rho / (1 - rho),
\* W = L / lambda and Wq = rho * W and no warning.
C13_TheoreticalModel ==
    \A k \in 1..Len(shown) :
        LET t == shown[k].theory
        IN /\ DOMAIN shown[k].results = ResultFields
           /\ ConfigRhoNum >= ConfigRhoDen =>
                /\ t.warning
                /\ t.metrics = <<>>
           /\ ConfigRhoNum < ConfigRhoDen =>
                /\ ~t.warning
                /\ Len(t.metrics) = 1
                /\ LET m == t.metrics[1]
                   IN /\ m.rho.num * ConfigRhoDen = ConfigRhoNum * m.rho.den
                      /\ m.rho.den # 0 /\ m.L.den # 0 /\ m.W.den # 0 /\ m.Wq.den # 0
                      /\ FracEq(m.L, [num |-> m.rho.num, den |-> m.rho.den - m.rho.num])
                      /\ FracEq(FracMul(m.W, m.lambda), m.L)
                      /\ FracEq(m.Wq, FracMul(m.rho, m.W))

\* C13 witness: a run with rho = 1, the edge of the unstable regime, is
\* shown with the warning, no metric, and a result of a run of 3 events.
C13_Witness ==
    /\ Len(shown) >= 1
    /\ ConfigRhoNum = ConfigRhoDen
    /\ shown[1].theory.warning
    /\ shown[1].results.total_time > 0
    /\ Len(shown[1].events) = 3

\* A run with rho < 1 is shown with L, W and Wq.
C13_StableShown ==
    /\ Len(shown) >= 1
    /\ ConfigRhoNum < ConfigRhoDen
    /\ Len(shown[1].theory.metrics) = 1

RECURSIVE HistoryArea(_)
\* The area under the occupancy step function of a history: for every pair
\* of consecutive samples, the earlier sample's customers_in_system times
\* the time between the two.
HistoryArea(h) ==
    IF Len(h) < 2 THEN 0
    ELSE HistoryArea(SubSeq(h, 1, Len(h) - 1))
         + h[Len(h) - 1].customers_in_system * (h[Len(h)].time - h[Len(h) - 1].time)

\* C14: the customer-time total simulate() divides by total_time is the
\* exact area under the piecewise-constant occupancy trajectory of the
\* history: each interval between consecutive samples weighs the occupancy
\* before the transition, that of the earlier sample.
C14_CustomerTimeIsArea ==
    pc \in {"loop", "returned"} =>
        /\ TotalCustomerTime(customer_time_data, time, previous_time, previous_customers)
             = HistoryArea(queue_history)
        /\ \A i \in 1..Len(customer_time_data) :
             /\ customer_time_data[i].customers = queue_history[i].customers_in_system
             /\ customer_time_data[i].duration
                  = queue_history[i + 1].time - queue_history[i].time
        /\ pc = "returned" =>
             result[1].avg_customers_in_system
                 = (IF result[1].total_time > 0
                    THEN [num |-> HistoryArea(queue_history), den |-> result[1].total_time]
                    ELSE [num |-> 0, den |-> 1])

\* C14 witness: a returned run of 10 events whose occupancy reached 3 and
\* whose area differs from what the occupancy after each transition gives.
C14_Witness ==
    /\ pc = "returned"
    /\ Len(events) = TotalScheduled
    /\ \E i \in 1..Len(queue_history) : queue_history[i].customers_in_system = 3
    /\ HistoryArea(queue_history) > 0
    /\ result[1].avg_customers_in_system.num = HistoryArea(queue_history)
    /\ \E i \in 1..Len(customer_time_data) :
         /\ customer_time_data[i].duration > 0
         /\ customer_time_data[i].customers # queue_history[i + 1].customers_in_system

RECURSIVE HistoryBusyTime(_)
\* The total length of the intervals between consecutive samples of a
\* history at whose start (the earlier sample) the server was busy.
HistoryBusyTime(h) ==
    IF Len(h) < 2 THEN 0
    ELSE HistoryBusyTime(SubSeq(h, 1, Len(h) - 1))
         + (IF h[Len(h) - 1].server_busy THEN h[Len(h)].time - h[Len(h) - 1].time ELSE 0)

\* C15: server_busy_time is the sum of the lengths of exactly the
\* inter-event intervals at whose start the server was busy, total_time is
\* the time of the last processed event (0 with none), and the utilization
\* returned is their quotient (0 when total_time is 0).
C15_BusyTimeAndTotalTime ==
    pc \in {"loop", "returned"} =>
        /\ server_busy_time = HistoryBusyTime(queue_history)
        /\ time = (IF events_log = <<>> THEN 0 ELSE events_log[Len(events_log)].time)
        /\ pc = "returned" =>
             /\ result[1].total_time
                  = (IF events = <<>> THEN 0 ELSE events[Len(events)].time)
             /\ result[1].server_utilization
                  = (IF result[1].total_time > 0
                     THEN [num |-> HistoryBusyTime(queue_history),
                           den |-> result[1].total_time]
                     ELSE [num |-> 0, den |-> 1])

\* C15 witness: a returned run of 10 events in which the server was idle
\* over an interval of positive length between two busy periods.
C15_Witness ==
    /\ pc = "returned"
    /\ Len(events) = TotalScheduled
    /\ result[1].server_utilization.num > 0
    /\ \E i \in 2..(Len(queue_history) - 1) :
         /\ ~queue_history[i].server_busy
         /\ queue_history[i + 1].time > queue_history[i].time
         /\ queue_history[i - 1].server_busy
         /\ queue_history[i].time > queue_history[i - 1].time

\* The customers of the entries of a given type, in the order of the log.
LogCustomers(log, kind) ==
    LET sel == SelectSeq(log, LAMBDA e : e.type = kind)
    IN [i \in 1..Len(sel) |-> sel[i].customer]

\* The customers of the pending Departure events.
PendingDepartures ==
    {event_list[i].customer : i \in {j \in 1..Len(event_list) : event_list[j].type = "departure"}}

\* The elements of a sequence.
Range(f) == {f[i] : i \in 1..Len(f)}

\* C16: service is first in, first out.  The waiting queue holds, in the
\* order of their Arrival events, exactly the customers that have arrived
\* and have not started service (an arrival that finds the server busy
\* joins the tail, a departure takes the head); the customers depart in the
\* order of their arrivals, the ids of successive Departure entries being
\* strictly increasing.
C16_Fifo ==
    pc \in {"loop", "returned"} =>
        LET arrived == LogCustomers(events_log, "Kedatangan")
            departed == LogCustomers(events_log, "Keberangkatan")
            started == Range(departed) \cup PendingDepartures
        IN /\ queue = SelectSeq(arrived, LAMBDA c : c \notin started)
           /\ Len(departed) <= Len(arrived)
           /\ departed = SubSeq(arrived, 1, Len(departed))
           /\ \A i \in 1..(Len(departed) - 1) : departed[i] < departed[i + 1]
           /\ \A i \in 1..(Len(queue) - 1) : queue[i] < queue[i + 1]

\* C16 witness: three customers wait, and two customers that had waited
\* have departed.
C16_Witness ==
    /\ pc = "loop"
    /\ Len(queue) = 3
    /\ \E i \in 1..Len(events_log) :
         /\ events_log[i].type = "Keberangkatan"
         /\ events_log[i].customer = 1
         /\ events_log[i].queue_length >= 1

\* C17: between processed events the pending event list holds exactly one
\* Departure when the server is busy and none when it is idle; that
\* Departure is the one of the customer in service: a customer that has
\* arrived, has not departed and is not in the waiting queue.
C17_OnePendingDeparture ==
    pc \in {"loop", "returned"} =>
        /\ Cardinality({j \in 1..Len(event_list) : event_list[j].type = "departure"})
             = BusyCount(server_busy)
        /\ \A c \in PendingDepartures :
             /\ c \notin Range(queue)
             /\ c \in Range(LogCustomers(events_log, "Kedatangan"))
             /\ c \notin Range(LogCustomers(events_log, "Keberangkatan"))

\* C17 witness: after a departure that took the next customer from the
\* queue, that customer's Departure is pending while another one waits.
C17_Witness ==
    /\ pc = "loop"
    /\ server_busy
    /\ queue # <<>>
    /\ events_log # <<>>
    /\ events_log[Len(events_log)].type = "Keberangkatan"
    /\ PendingDepartures = {2}

\* C18: the server is work-conserving: in every HistorySample and every
\* EventLogEntry, and in the live state, an idle server means an empty
\* queue and no customer in the system.
C18_WorkConserving ==
    /\ \A i \in 1..Len(queue_history) :
         ~queue_history[i].server_busy =>
            /\ queue_history[i].queue_length = 0
            /\ queue_history[i].customers_in_system = 0
    /\ \A i \in 1..Len(events_log) :
         events_log[i].server_status = "Idle" =>
            /\ events_log[i].queue_length = 0
            /\ events_log[i].in_system = 0
    /\ \A i \in 1..Len(events) :
         events[i].server_status = "Idle" =>
            /\ events[i].queue_length = 0
            /\ events[i].in_system = 0
    /\ ~server_busy => (queue = <<>> /\ customers_in_system = 0)

\* C18 witness: the server has gone idle after a period in which a customer
\* waited, and a later arrival has found it idle.
C18_Witness ==
    \E i \in 1..Len(events_log) : \E j \in 1..Len(events_log) : \E k \in 1..Len(events_log) :
        /\ i < j /\ j < k
        /\ events_log[i].queue_length >= 1
        /\ events_log[j].server_status = "Idle"
        /\ events_log[k].type = "Kedatangan"

\* The indices of the entries of a log of a given type for customer c.
EntriesOf(log, kind, c) ==
    {i \in 1..Len(log) : log[i].type = kind /\ log[i].customer = c}

\* C19: the log holds, for every customer, at most one Arrival and at most
\* one Departure; a Departure comes after the Arrival of its customer and
\* not before that customer's arrival time; customers_in_system is the
\* number of Arrivals minus the number of Departures processed, so it is
\* never negative and never above the 5 generated customers.
C19_CustomerLifecycle ==
    pc \in {"loop", "returned"} =>
        /\ \A i \in 1..Len(events_log) : events_log[i].customer \in 1..NumCustomers
        /\ \A c \in 1..NumCustomers :
             LET arr == EntriesOf(events_log, "Kedatangan", c)
                 dep == EntriesOf(events_log, "Keberangkatan", c)
             IN /\ Cardinality(arr) <= 1
                /\ Cardinality(dep) <= 1
                /\ \A i \in arr : events_log[i].time = arrivals[c].arrival_time
                /\ \A j \in dep :
                     /\ \E i \in arr : i < j
                     /\ events_log[j].time >= arrivals[c].arrival_time
        /\ customers_in_system
             = Len(LogCustomers(events_log, "Kedatangan"))
               - Len(LogCustomers(events_log, "Keberangkatan"))
        /\ customers_in_system >= 0
        /\ customers_in_system <= NumCustomers

\* C19 witness: customer 3 has departed later than it arrived, while
\* customers 4 and 5 are both in the system.
C19_Witness ==
    /\ pc = "loop"
    /\ customers_in_system = 2
    /\ \E j \in EntriesOf(events_log, "Keberangkatan", 3) :
         events_log[j].time > arrivals[3].arrival_time
    /\ EntriesOf(events_log, "Kedatangan", 5) # {}

\* C20: a run that ends because the event list is exhausted (num_events at
\* least 10) has processed exactly 10 events, every generated customer has
\* arrived and departed, and the result reports 0 customers in the system,
\* queue length 0 and an idle server.
C20_ExhaustedRunIsEmpty ==
    (pc = "returned" /\ num_events >= TotalScheduled) =>
        /\ event_list = <<>>
        /\ Len(events) = TotalScheduled
        /\ \A c \in 1..NumCustomers :
             /\ Cardinality(EntriesOf(events, "Kedatangan", c)) = 1
             /\ Cardinality(EntriesOf(events, "Keberangkatan", c)) = 1
        /\ result[1].final_customers_in_system = 0
        /\ result[1].final_queue_length = 0
        /\ ~result[1].server_busy
        /\ events[TotalScheduled].type = "Keberangkatan"
        /\ events[TotalScheduled].server_status = "Idle"

\* C20 witness: a run with num_events = 10 exactly has returned with the
\* list exhausted, after a queue of 4 had built up.
C20_Witness ==
    /\ pc = "returned"
    /\ num_events = TotalScheduled
    /\ event_list = <<>>
    /\ result[1].final_customers_in_system = 0
    /\ \E i \in 1..Len(events) : events[i].queue_length = 4

\* C21: every call of simulate() starts from a clean state: whichever call
\* is running or has returned, the arrivals are the 5 of that call, the
\* history starts with the single initial sample at time 0, holds
\* processed-count + 1 samples with non-decreasing times, and the event log
\* exposed after the return is the log of that call.
C21_EachRunStartsClean ==
    pc \in {"loop", "returned"} =>
        /\ Len(arrivals) = NumCustomers
        /\ queue_history[1] = InitialSample
        /\ Len(queue_history) = event_count + 1
        /\ Len(server_busy_history) = event_count + 1
        /\ TimesNonDecreasing(queue_history)
        /\ TimesNonDecreasing(server_busy_history)
        /\ pc = "returned" => (events = events_log /\ Len(events) = event_count)

====
